---- MODULE Spec2Model ----
(***************************************************************************)
(* Delivery subsystem of rollbar-go: the asynchronous transport            *)
(* (src/async_transport.go) with its buffered channel, WaitGroup           *)
(* accounting, retry and rate-limit policy, and the synchronous transport  *)
(* (src/sync_transport.go).  A client holds one of the two transports.     *)
(***************************************************************************)
EXTENDS Integers, Sequences, FiniteSets, TLC

(* ------------------------------ bounds -------------------------------- *)
MaxSends == 2             \* Send calls in a behaviour
MaxBuffer == 1            \* largest channel capacity drawn in Init
MaxRetry == 1             \* largest RetryAttempts drawn in Init
MaxItemsPerMinute == 1    \* largest ItemsPerMinute drawn in Init
MaxTicks == 1             \* clock advances in a behaviour
FifoBuffer == 2           \* channel capacity of the single-producer runs
MaxQueueSize == 2         \* largest size given to NewQueue
MaxPushes == 4            \* Push calls in a behaviour
MaxChain == 3             \* error values, and so the longest cause chain
MaxKeys == 2              \* keys of the custom and extras maps

(* ------------------------- program constants -------------------------- *)
Window == 60              \* seconds of one rate-limit window
TickStep == 60            \* seconds the modelled clock advances per Tick
ZeroTime == 0 - Window    \* startTime of a transport that never set it

Calls == 1..MaxSends
NumProducers == 2

VARIABLES
    transport,           \* "async" or "sync": the Transport the client holds
    Buffer,              \* AsyncTransport.Buffer, capacity of bodyChannel
    RetryAttempts,       \* baseTransport.RetryAttempts
    ItemsPerMinute,      \* baseTransport.ItemsPerMinute
    Token,               \* baseTransport.Token
    PrintPayloadOnError, \* baseTransport.PrintPayloadOnError
    bodyChannel,         \* buffered payloads, oldest first
    closed,              \* close(bodyChannel) was executed
    waitGroup,           \* counter of AsyncTransport.waitGroup
    ctxDone,             \* transport.ctx.Done() is readable
    perMinCounter,       \* baseTransport.perMinCounter
    startTime,           \* baseTransport.startTime
    now,                 \* time.Now(), in seconds
    pc,                  \* position of every Send call
    result,              \* value returned by every Send call
    steps,               \* own steps taken by every Send call
    retriesLeft,         \* retriesLeft argument of the running doSend
    wpc,                 \* position of the worker goroutine
    cur,                 \* payload p held by the worker
    closePc,             \* position of the Close call
    waitPc,              \* position of the Wait call
    budget,              \* RetryAttempts read by Send for its payload
    afterClose,          \* the Send call began after Close had returned
    enq,                 \* payload was put into bodyChannel by Send
    posts,               \* post calls made per payload
    outcome,             \* terminal outcome per payload
    dones,               \* waitGroup.Done() calls made per payload
    sink,                \* lines written to the logger / stderr
    win,                 \* what happened since the window was last reset
    producers,           \* number of goroutines that call Send
    ahead,               \* payloads queued in front of a re-enqueued payload
    lastResp,            \* answer to the latest post of every synchronous Send
    queue,               \* the telemetry Queue, "none" while there is none
    ebCall,              \* the errorBody call, "none" while there is none
    body,                \* the payload builder of a client, "none" without client
    postCall             \* the latest call of baseTransport.post, "none" without one

\* the producer that issues call c
Owner(c) == ((c - 1) % producers) + 1

lib == <<queue, ebCall, body, postCall>>
cfg == <<transport, Buffer, RetryAttempts, ItemsPerMinute, Token, PrintPayloadOnError,
         producers>>
hist == <<ahead, lastResp>>
rate == <<perMinCounter, startTime, win>>
call == <<pc, steps, budget, afterClose, retriesLeft>>
work == <<wpc, cur>>
ends == <<closePc, waitPc>>
net == <<hist, cfg, bodyChannel, closed, waitGroup, ctxDone, rate, now, call, result,
         enq, work, ends, posts, outcome, dones, sink>>
vars == <<lib, net>>

NoPayload == [id |-> 0, retriesLeft |-> 0]
NewWindow == [seen |-> 0, ok |-> 0, fail |-> FALSE, racy |-> FALSE]

(* ------------------------------ helpers ------------------------------- *)

\* the occupancy check with <= in place of <
HasRoomOffByOne(ch, buffer) == Len(ch) <= buffer

\* len(t.bodyChannel) < t.Buffer
HasRoom(ch, buffer) == Len(ch) < buffer

\* isClosed: with an empty buffer it receives from the channel, which
\* completes at once only when the channel is closed; with a non-empty
\* buffer it reports "not closed" without looking.
isClosed(ch, cl) == IF Len(ch) = 0 THEN cl ELSE FALSE

\* the receive inside isClosed can complete
isClosedReturns(ch, cl) == Len(ch) = 0 => cl

\* what the remote end (or the encoder) does with one post
Responses == {"200", "429", "500", "neterr_temporary", "neterr_permanent", "encode_failure"}

\* a post that takes every answer but 200 for a reason to try again
postRetriesAnyStatus(token, resp) ==
    IF token = ""
    THEN [canRetry |-> FALSE, err |-> "nil", logs |-> TRUE, sent |-> FALSE]
    ELSE IF resp = "encode_failure"
    THEN [canRetry |-> FALSE, err |-> "encode", logs |-> TRUE, sent |-> FALSE]
    ELSE IF resp = "neterr_temporary"
    THEN [canRetry |-> TRUE, err |-> "net", logs |-> TRUE, sent |-> TRUE]
    ELSE IF resp = "neterr_permanent"
    THEN [canRetry |-> FALSE, err |-> "net", logs |-> TRUE, sent |-> TRUE]
    ELSE IF resp # "200"
    THEN [canRetry |-> TRUE, err |-> "http", logs |-> TRUE, sent |-> TRUE]
    ELSE [canRetry |-> FALSE, err |-> "nil", logs |-> FALSE, sent |-> TRUE]

\* a post that reports the empty token as an error
postEmptyTokenFails(token, resp) ==
    IF token = ""
    THEN [canRetry |-> FALSE, err |-> "token", logs |-> TRUE, sent |-> FALSE]
    ELSE IF resp = "encode_failure"
    THEN [canRetry |-> FALSE, err |-> "encode", logs |-> TRUE, sent |-> FALSE]
    ELSE IF resp = "neterr_temporary"
    THEN [canRetry |-> TRUE, err |-> "net", logs |-> TRUE, sent |-> TRUE]
    ELSE IF resp = "neterr_permanent"
    THEN [canRetry |-> FALSE, err |-> "net", logs |-> TRUE, sent |-> TRUE]
    ELSE IF resp # "200"
    THEN [canRetry |-> (resp = "429"), err |-> "http", logs |-> TRUE, sent |-> TRUE]
    ELSE [canRetry |-> FALSE, err |-> "nil", logs |-> FALSE, sent |-> TRUE]

\* a post that does not look at the token
postTokenUnchecked(token, resp) ==
    IF resp = "encode_failure"
    THEN [canRetry |-> FALSE, err |-> "encode", logs |-> TRUE, sent |-> FALSE]
    ELSE IF resp = "neterr_temporary"
    THEN [canRetry |-> TRUE, err |-> "net", logs |-> TRUE, sent |-> TRUE]
    ELSE IF resp = "neterr_permanent"
    THEN [canRetry |-> FALSE, err |-> "net", logs |-> TRUE, sent |-> TRUE]
    ELSE IF resp # "200"
    THEN [canRetry |-> (resp = "429"), err |-> "http", logs |-> TRUE, sent |-> TRUE]
    ELSE [canRetry |-> FALSE, err |-> "nil", logs |-> FALSE, sent |-> TRUE]

\* baseTransport.post: (canRetry, err), whether rollbarError was called, and
\* whether the HTTP client was asked to send a request
post(token, resp) ==
    IF token = ""
    THEN [canRetry |-> FALSE, err |-> "nil", logs |-> TRUE, sent |-> FALSE]
    ELSE IF resp = "encode_failure"
    THEN [canRetry |-> FALSE, err |-> "encode", logs |-> TRUE, sent |-> FALSE]
    ELSE IF resp = "neterr_temporary"
    THEN [canRetry |-> TRUE, err |-> "net", logs |-> TRUE, sent |-> TRUE]
    ELSE IF resp = "neterr_permanent"
    THEN [canRetry |-> FALSE, err |-> "net", logs |-> TRUE, sent |-> TRUE]
    ELSE IF resp # "200"
    THEN [canRetry |-> (resp = "429"), err |-> "http", logs |-> TRUE, sent |-> TRUE]
    ELSE [canRetry |-> FALSE, err |-> "nil", logs |-> FALSE, sent |-> TRUE]

\* a window that is over only after more than 60 seconds
WindowExpiredStrict(t, start) == (t - start < 0) \/ (t - start > Window)

\* elapsedTime < 0 || elapsedTime >= 60
WindowExpired(t, start) == (t - start < 0) \/ (t - start >= Window)

\* baseTransport.shouldSend
shouldSend(itemsPerMinute, counter) ==
    ~(itemsPerMinute > 0 /\ counter >= itemsPerMinute)

\* the retry test with >= in place of >
CanRequeueOffByOne(canRetry, left) == canRetry /\ left >= 0

\* canRetry && p.retriesLeft > 0
CanRequeue(canRetry, left) == canRetry /\ left > 0

\* the give-up test with < in place of <=
GiveUpBelowZero(canRetry, left) == ~canRetry \/ left < 0

\* sync_transport.go line 47: !canRetry || retriesLeft <= 0
GiveUp(canRetry, left) == ~canRetry \/ left <= 0

\* the window bookkeeping after one pass through the rate limiter
Seen(w, expired, posted, failed, overlap) ==
    LET b == IF expired THEN [NewWindow EXCEPT !.racy = w.racy] ELSE w
    IN [seen |-> b.seen + 1,
        ok |-> b.ok + (IF posted /\ ~failed THEN 1 ELSE 0),
        fail |-> b.fail \/ failed,
        racy |-> b.racy \/ overlap]

(* ------------ values of the queue, the errors and the maps ------------ *)

\* the nil interface value (a nil error, an empty slot of the queue)
Nil == 0

\* a nil map[string]interface{}
NilMap == [nil |-> TRUE, kv |-> <<>>]

\* a nil Stack, and make(Stack, 0)
NilStack == [nil |-> TRUE, frames |-> <<>>]
EmptyStack == [nil |-> FALSE, frames |-> <<>>]

\* no queue, no errorBody call, no client, no call of post on its own
LibIdle == queue = "none" /\ ebCall = "none" /\ body = "none" /\ postCall = "none"

(* ------------------------------- Init --------------------------------- *)
\* the transport right after NewAsyncTransport / NewSyncTransport
NetStart ==
    /\ PrintPayloadOnError = TRUE
    /\ bodyChannel = <<>>
    /\ closed = FALSE
    /\ waitGroup = 0
    /\ ctxDone = FALSE
    /\ perMinCounter = 0
    /\ now = 0
    /\ startTime = (IF transport = "async" THEN ZeroTime ELSE now)
    /\ win = NewWindow
    /\ pc = [c \in Calls |-> "idle"]
    /\ result = [c \in Calls |-> "none"]
    /\ steps = [c \in Calls |-> 0]
    /\ retriesLeft = [c \in Calls |-> 0]
    /\ wpc = "recv"
    /\ cur = NoPayload
    /\ closePc = "idle"
    /\ waitPc = "idle"
    /\ budget = [c \in Calls |-> 0]
    /\ afterClose = [c \in Calls |-> FALSE]
    /\ enq = [c \in Calls |-> FALSE]
    /\ posts = [c \in Calls |-> 0]
    /\ outcome = [c \in Calls |-> "none"]
    /\ dones = [c \in Calls |-> 0]
    /\ sink = {}
    /\ ahead = [c \in Calls |-> {}]
    /\ lastResp = [c \in Calls |-> "none"]

Init ==
    /\ transport \in {"async", "sync"}
    /\ Buffer \in (IF transport = "async" THEN {0, MaxBuffer} ELSE {0})
    /\ RetryAttempts \in {0, MaxRetry}
    /\ ItemsPerMinute \in {0, MaxItemsPerMinute}
    /\ Token \in {"", "tok"}
    /\ producers = NumProducers
    /\ NetStart
    /\ LibIdle

\* a program that holds no transport
NetIdle ==
    /\ transport = "none"
    /\ Buffer = 0
    /\ RetryAttempts = 0
    /\ ItemsPerMinute = 0
    /\ Token = ""
    /\ producers = 1
    /\ NetStart

\* a producer issues its calls one after the other
MayStart(c) == \A d \in Calls : (d < c /\ Owner(d) = Owner(c)) => pc[d] = "done"

\* rollbarError / writePayloadToStderr
Log(id, what) == sink' = sink \cup {<<id, what>>}

(* ------------------------ AsyncTransport.Send ------------------------- *)

\* line 135: the occupancy check, and the else branch (lines 148-155)
SendCheck(c) ==
    /\ transport = "async"
    /\ pc[c] = "idle"
    /\ MayStart(c)
    /\ steps' = [steps EXCEPT ![c] = @ + 1]
    /\ afterClose' = [afterClose EXCEPT ![c] = (closePc = "returned")]
    /\ IF HasRoom(bodyChannel, Buffer)
       THEN /\ pc' = [pc EXCEPT ![c] = "add"]
            /\ UNCHANGED <<result, sink>>
       ELSE /\ pc' = [pc EXCEPT ![c] = "done"]
            /\ result' = [result EXCEPT ![c] = "ErrBufferFull"]
            /\ sink' = sink \cup {<<c, "error">>}
                            \cup (IF PrintPayloadOnError THEN {<<c, "payload">>} ELSE {})
    /\ UNCHANGED <<lib, hist, cfg, bodyChannel, closed, waitGroup, ctxDone, rate, now, budget,
                   retriesLeft, enq, work, ends, posts, outcome, dones>>

\* lines 136-140: waitGroup.Add(1) and the payload with the current RetryAttempts
SendAdd(c) ==
    /\ pc[c] = "add"
    /\ steps' = [steps EXCEPT ![c] = @ + 1]
    /\ waitGroup' = waitGroup + 1
    /\ budget' = [budget EXCEPT ![c] = RetryAttempts]
    /\ pc' = [pc EXCEPT ![c] = "select"]
    /\ UNCHANGED <<lib, hist, cfg, bodyChannel, closed, ctxDone, rate, now, afterClose, retriesLeft,
                   result, enq, work, ends, posts, outcome, dones, sink>>

\* lines 142-144: case <-t.ctx.Done(); returns without waitGroup.Done()
SelectCancelled(c) ==
    /\ ctxDone
    /\ Log(c, "payload")
    /\ result' = [result EXCEPT ![c] = "ctxErr"]
    /\ pc' = [pc EXCEPT ![c] = "done"]
    /\ UNCHANGED <<bodyChannel, enq>>

\* line 145 on a closed channel: the send panics
SelectPanic(c) ==
    /\ closed
    /\ pc' = [pc EXCEPT ![c] = "panic"]
    /\ UNCHANGED <<bodyChannel, enq, result, sink>>

\* line 145 and 156: case t.bodyChannel <- p; return nil
SelectSend(c) ==
    /\ ~closed
    /\ Len(bodyChannel) < Buffer
    /\ bodyChannel' = Append(bodyChannel, [id |-> c, retriesLeft |-> budget[c]])
    /\ enq' = [enq EXCEPT ![c] = TRUE]
    /\ result' = [result EXCEPT ![c] = "nil"]
    /\ pc' = [pc EXCEPT ![c] = "done"]
    /\ UNCHANGED sink

\* lines 146 and 156: default: nothing is ready; return nil
SelectDefault(c) ==
    /\ ~ctxDone
    /\ ~closed
    /\ ~(Len(bodyChannel) < Buffer)
    /\ result' = [result EXCEPT ![c] = "nil"]
    /\ pc' = [pc EXCEPT ![c] = "done"]
    /\ UNCHANGED <<bodyChannel, enq, sink>>

\* the select without its default case: the send waits for room
SendSelectBlocking(c) ==
    /\ pc[c] = "select"
    /\ steps' = [steps EXCEPT ![c] = @ + 1]
    /\ SelectCancelled(c) \/ SelectPanic(c) \/ SelectSend(c)
    /\ UNCHANGED <<lib, hist, cfg, closed, waitGroup, ctxDone, rate, now, budget, afterClose,
                   retriesLeft, work, ends, posts, outcome, dones>>

\* lines 141-147: the select
SendSelect(c) ==
    /\ pc[c] = "select"
    /\ steps' = [steps EXCEPT ![c] = @ + 1]
    /\ SelectCancelled(c) \/ SelectPanic(c) \/ SelectSend(c) \/ SelectDefault(c)
    /\ UNCHANGED <<lib, hist, cfg, closed, waitGroup, ctxDone, rate, now, budget, afterClose,
                   retriesLeft, work, ends, posts, outcome, dones>>

\* lines 122-134: the deferred recover after the panic
SendRecover(c) ==
    /\ pc[c] = "panic"
    /\ isClosedReturns(bodyChannel, closed)
    /\ steps' = [steps EXCEPT ![c] = @ + 1]
    /\ pc' = [pc EXCEPT ![c] = "done"]
    /\ IF isClosed(bodyChannel, closed)
       THEN /\ waitGroup' = waitGroup - 1
            /\ dones' = [dones EXCEPT ![c] = @ + 1]
            /\ result' = [result EXCEPT ![c] = "ErrChannelClosed"]
       ELSE /\ result' = [result EXCEPT ![c] = "nil"]
            /\ UNCHANGED <<waitGroup, dones>>
    /\ UNCHANGED <<lib, hist, cfg, bodyChannel, closed, ctxDone, rate, now, budget, afterClose,
                   retriesLeft, enq, work, ends, posts, outcome, sink>>

Send(c) == SendCheck(c) \/ SendAdd(c) \/ SendSelect(c) \/ SendRecover(c)

(* ------------------- worker goroutine of the transport ---------------- *)

\* transport.waitGroup.Done() for payload id
Done(id) ==
    /\ waitGroup' = waitGroup - 1
    /\ dones' = [dones EXCEPT ![id] = @ + 1]

\* a worker that hands the delivery error to the Send call instead of
\* writing it to the logger
DropReturnsErr(id, how, lines) ==
    /\ sink' = sink \cup lines
    /\ Done(id)
    /\ outcome' = [outcome EXCEPT ![id] = how]
    /\ result' = [result EXCEPT ![id] = "postErr"]

\* lines 96-99 and 102-105: the payload is given up; the failure goes to
\* the logger only
Drop(id, how, lines) ==
    /\ sink' = sink \cup lines \cup (IF PrintPayloadOnError THEN {<<id, "payload">>} ELSE {})
    /\ Done(id)
    /\ outcome' = [outcome EXCEPT ![id] = how]
    /\ UNCHANGED result

\* a worker that takes the newest payload of the channel
WorkerRecvLast ==
    /\ wpc = "recv"
    /\ IF Len(bodyChannel) > 0
       THEN /\ cur' = bodyChannel[Len(bodyChannel)]
            /\ bodyChannel' = SubSeq(bodyChannel, 1, Len(bodyChannel) - 1)
            /\ wpc' = "process"
       ELSE /\ closed
            /\ wpc' = "exited"
            /\ UNCHANGED <<cur, bodyChannel>>
    /\ UNCHANGED <<lib, hist, cfg, closed, waitGroup, ctxDone, rate, now, call, result, enq,
                   ends, posts, outcome, dones, sink>>

\* line 74: for p := range transport.bodyChannel
WorkerRecv ==
    /\ wpc = "recv"
    /\ IF Len(bodyChannel) > 0
       THEN /\ cur' = Head(bodyChannel)
            /\ bodyChannel' = Tail(bodyChannel)
            /\ wpc' = "process"
       ELSE /\ closed
            /\ wpc' = "exited"
            /\ UNCHANGED <<cur, bodyChannel>>
    /\ UNCHANGED <<lib, hist, cfg, closed, waitGroup, ctxDone, rate, now, call, result, enq, ends,
                   posts, outcome, dones, sink>>

\* lines 75-84 and 101-113: window roll-over, shouldSend, post, and the
\* branches that do not put the payload back
WorkerProcess ==
    /\ wpc = "process"
    /\ LET expired == WindowExpired(now, startTime)
           counter == IF expired THEN 0 ELSE perMinCounter
       IN /\ startTime' = IF expired THEN now ELSE startTime
          /\ perMinCounter' = counter
          /\ IF shouldSend(ItemsPerMinute, counter)
             THEN \E resp \in Responses :
                    LET r == post(Token, resp)
                        lines == IF r.logs THEN {<<cur.id, "error">>} ELSE {}
                    IN
                    /\ posts' = [posts EXCEPT ![cur.id] = @ + 1]
                    /\ win' = Seen(win, expired, TRUE, r.err # "nil", FALSE)
                    /\ IF r.err # "nil"
                       THEN IF CanRequeue(r.canRetry, cur.retriesLeft)
                            THEN /\ cur' = [cur EXCEPT !.retriesLeft = @ - 1]
                                 /\ wpc' = "requeue"
                                 /\ sink' = sink \cup lines
                                 /\ UNCHANGED <<waitGroup, dones, outcome, result>>
                            ELSE /\ Drop(cur.id, "dropped", lines)
                                 /\ cur' = NoPayload
                                 /\ wpc' = "recv"
                       ELSE /\ Done(cur.id)
                            /\ outcome' = [outcome EXCEPT ![cur.id] = "posted"]
                            /\ wpc' = "incr"
                            /\ sink' = sink \cup lines
                            /\ UNCHANGED <<cur, result>>
             ELSE /\ Done(cur.id)
                  /\ outcome' = [outcome EXCEPT ![cur.id] = "skipped"]
                  /\ win' = Seen(win, expired, FALSE, FALSE, FALSE)
                  /\ cur' = NoPayload
                  /\ wpc' = "recv"
                  /\ UNCHANGED <<posts, sink, result>>
    /\ ahead' = [x \in Calls |-> ahead[x] \ {cur.id}]
    /\ UNCHANGED <<lib, lastResp, cfg, bodyChannel, closed, ctxDone, now, call, enq, ends>>

\* the payloads that are in the channel
Queued(ch) == {ch[i].id : i \in 1..Len(ch)}

\* lines 86-89: case <-transport.ctx.Done(); the goroutine returns
RequeueCancelled ==
    /\ ctxDone
    /\ Log(cur.id, "payload")
    /\ Done(cur.id)
    /\ outcome' = [outcome EXCEPT ![cur.id] = "cancelled"]
    /\ cur' = NoPayload
    /\ wpc' = "exited"
    /\ UNCHANGED <<bodyChannel, result, ahead>>

\* line 90 on a closed channel: the send panics, the deferred recover
\* (lines 62-72) ends the goroutine with the payload in hand
RequeuePanic ==
    /\ closed
    /\ wpc' = "exited"
    /\ UNCHANGED <<bodyChannel, cur, waitGroup, dones, outcome, sink, result, ahead>>

\* a re-enqueue that also marks the payload processed
RequeueSendDone ==
    /\ ~closed
    /\ Len(bodyChannel) < Buffer
    /\ bodyChannel' = Append(bodyChannel, cur)
    /\ ahead' = [ahead EXCEPT ![cur.id] = Queued(bodyChannel)]
    /\ Done(cur.id)
    /\ cur' = NoPayload
    /\ wpc' = "recv"
    /\ UNCHANGED <<outcome, sink, result>>

\* line 90: case transport.bodyChannel <- p
RequeueSend ==
    /\ ~closed
    /\ Len(bodyChannel) < Buffer
    /\ bodyChannel' = Append(bodyChannel, cur)
    /\ ahead' = [ahead EXCEPT ![cur.id] = Queued(bodyChannel)]
    /\ cur' = NoPayload
    /\ wpc' = "recv"
    /\ UNCHANGED <<waitGroup, dones, outcome, sink, result>>

\* lines 91-99: default: the channel is full, a retry failure
RequeueDefault ==
    /\ ~ctxDone
    /\ ~closed
    /\ ~(Len(bodyChannel) < Buffer)
    /\ Drop(cur.id, "dropped_full", {})
    /\ UNCHANGED ahead
    /\ cur' = NoPayload
    /\ wpc' = "recv"
    /\ UNCHANGED bodyChannel

\* lines 85-100: the select that puts the payload back
WorkerRequeue ==
    /\ wpc = "requeue"
    /\ RequeueCancelled \/ RequeuePanic \/ RequeueSend \/ RequeueDefault
    /\ UNCHANGED <<lib, lastResp, cfg, closed, ctxDone, rate, now, call, enq, ends, posts>>

\* a worker that forgets to count the successful post
WorkerIncrLost ==
    /\ wpc = "incr"
    /\ cur' = NoPayload
    /\ wpc' = "recv"
    /\ UNCHANGED <<lib, hist, cfg, bodyChannel, closed, waitGroup, ctxDone, rate, now, call,
                   result, enq, ends, posts, outcome, dones, sink>>

\* a worker that counts the successful post twice
WorkerIncrTwice ==
    /\ wpc = "incr"
    /\ perMinCounter' = perMinCounter + 2
    /\ cur' = NoPayload
    /\ wpc' = "recv"
    /\ UNCHANGED <<lib, hist, cfg, bodyChannel, closed, waitGroup, ctxDone, startTime, win, now, call,
                   result, enq, ends, posts, outcome, dones, sink>>

\* line 109: transport.perMinCounter++ (after the Done of line 108)
WorkerIncr ==
    /\ wpc = "incr"
    /\ perMinCounter' = perMinCounter + 1
    /\ cur' = NoPayload
    /\ wpc' = "recv"
    /\ UNCHANGED <<lib, hist, cfg, bodyChannel, closed, waitGroup, ctxDone, startTime, win, now, call,
                   result, enq, ends, posts, outcome, dones, sink>>

Worker == WorkerRecv \/ WorkerProcess \/ WorkerRequeue \/ WorkerIncr

(* ------------------------- SyncTransport.Send ------------------------- *)

\* sync_transport.go line 35: doSend(body, t.RetryAttempts)
SyncSend(c) ==
    /\ transport = "sync"
    /\ pc[c] = "idle"
    /\ MayStart(c)
    /\ steps' = [steps EXCEPT ![c] = @ + 1]
    /\ budget' = [budget EXCEPT ![c] = RetryAttempts]
    /\ retriesLeft' = [retriesLeft EXCEPT ![c] = RetryAttempts]
    /\ pc' = [pc EXCEPT ![c] = "doSend"]
    /\ UNCHANGED <<lib, hist, cfg, bodyChannel, closed, waitGroup, ctxDone, rate, now, afterClose,
                   result, enq, work, ends, posts, outcome, dones, sink>>

\* sync_transport.go lines 39-44 and 58: window roll-over and shouldSend
SyncWindow(c) ==
    /\ pc[c] = "doSend"
    /\ steps' = [steps EXCEPT ![c] = @ + 1]
    /\ LET expired == WindowExpired(now, startTime)
           counter == IF expired THEN 0 ELSE perMinCounter
           overlap == \E d \in Calls : d # c /\ pc[d] = "post"
       IN /\ startTime' = IF expired THEN now ELSE startTime
          /\ perMinCounter' = counter
          /\ IF shouldSend(ItemsPerMinute, counter)
             THEN /\ pc' = [pc EXCEPT ![c] = "post"]
                  /\ win' = Seen(win, expired, FALSE, FALSE, overlap)
                  /\ UNCHANGED <<result, outcome>>
             ELSE /\ pc' = [pc EXCEPT ![c] = "done"]
                  /\ win' = Seen(win, expired, FALSE, FALSE, overlap)
                  /\ result' = [result EXCEPT ![c] = "nil"]
                  /\ outcome' = [outcome EXCEPT ![c] = "skipped"]
    /\ UNCHANGED <<lib, hist, cfg, bodyChannel, closed, waitGroup, ctxDone, now, budget, afterClose,
                   retriesLeft, enq, work, ends, posts, dones, sink>>

\* a doSend that logs the final error and returns nil
SyncPostSwallows(c) ==
    /\ pc[c] = "post"
    /\ steps' = [steps EXCEPT ![c] = @ + 1]
    /\ \E resp \in Responses :
         LET r == post(Token, resp)
             lines == IF r.logs THEN {<<c, "error">>} ELSE {}
         IN
         /\ posts' = [posts EXCEPT ![c] = @ + 1]
         /\ lastResp' = [lastResp EXCEPT ![c] = resp]
         /\ IF r.err # "nil"
            THEN /\ win' = [win EXCEPT !.fail = TRUE]
                 /\ IF GiveUp(r.canRetry, retriesLeft[c])
                    THEN /\ sink' = sink \cup lines
                                    \cup (IF PrintPayloadOnError THEN {<<c, "payload">>} ELSE {})
                         /\ result' = [result EXCEPT ![c] = "nil"]
                         /\ outcome' = [outcome EXCEPT ![c] = "dropped"]
                         /\ pc' = [pc EXCEPT ![c] = "done"]
                         /\ UNCHANGED retriesLeft
                    ELSE /\ retriesLeft' = [retriesLeft EXCEPT ![c] = @ - 1]
                         /\ pc' = [pc EXCEPT ![c] = "doSend"]
                         /\ sink' = sink \cup lines
                         /\ UNCHANGED <<result, outcome>>
                 /\ UNCHANGED perMinCounter
            ELSE /\ perMinCounter' = perMinCounter + 1
                 /\ win' = [win EXCEPT !.ok = @ + 1]
                 /\ result' = [result EXCEPT ![c] = "nil"]
                 /\ outcome' = [outcome EXCEPT ![c] = "posted"]
                 /\ pc' = [pc EXCEPT ![c] = "done"]
                 /\ sink' = sink \cup lines
                 /\ UNCHANGED retriesLeft
    /\ UNCHANGED <<lib, ahead, cfg, bodyChannel, closed, waitGroup, ctxDone, startTime, now,
                   budget, afterClose, enq, work, ends, dones>>

\* sync_transport.go lines 45-58: post and what follows it
SyncPost(c) ==
    /\ pc[c] = "post"
    /\ steps' = [steps EXCEPT ![c] = @ + 1]
    /\ \E resp \in Responses :
         LET r == post(Token, resp)
             lines == IF r.logs THEN {<<c, "error">>} ELSE {}
         IN
         /\ posts' = [posts EXCEPT ![c] = @ + 1]
         /\ lastResp' = [lastResp EXCEPT ![c] = resp]
         /\ IF r.err # "nil"
            THEN /\ win' = [win EXCEPT !.fail = TRUE]
                 /\ IF GiveUp(r.canRetry, retriesLeft[c])
                    THEN /\ sink' = sink \cup lines
                                    \cup (IF PrintPayloadOnError THEN {<<c, "payload">>} ELSE {})
                         /\ result' = [result EXCEPT ![c] = r.err]
                         /\ outcome' = [outcome EXCEPT ![c] = "dropped"]
                         /\ pc' = [pc EXCEPT ![c] = "done"]
                         /\ UNCHANGED retriesLeft
                    ELSE /\ retriesLeft' = [retriesLeft EXCEPT ![c] = @ - 1]
                         /\ pc' = [pc EXCEPT ![c] = "doSend"]
                         /\ sink' = sink \cup lines
                         /\ UNCHANGED <<result, outcome>>
                 /\ UNCHANGED perMinCounter
            ELSE /\ perMinCounter' = perMinCounter + 1
                 /\ win' = [win EXCEPT !.ok = @ + 1]
                 /\ result' = [result EXCEPT ![c] = "nil"]
                 /\ outcome' = [outcome EXCEPT ![c] = "posted"]
                 /\ pc' = [pc EXCEPT ![c] = "done"]
                 /\ sink' = sink \cup lines
                 /\ UNCHANGED retriesLeft
    /\ UNCHANGED <<lib, ahead, cfg, bodyChannel, closed, waitGroup, ctxDone, startTime, now,
                   budget, afterClose, enq, work, ends, dones>>

Sync(c) == SyncSend(c) \/ SyncWindow(c) \/ SyncPost(c)

(* ----------------------- Wait, Close, environment --------------------- *)

\* AsyncTransport.Wait is entered
WaitCall ==
    /\ transport = "async"
    /\ waitPc = "idle"
    /\ waitPc' = "waiting"
    /\ UNCHANGED <<lib, hist, cfg, bodyChannel, closed, waitGroup, ctxDone, rate, now, call, result,
                   enq, work, closePc, posts, outcome, dones, sink>>

\* line 161: waitGroup.Wait() returns
WaitReturn ==
    /\ waitPc = "waiting"
    /\ waitGroup = 0
    /\ waitPc' = "returned"
    /\ UNCHANGED <<lib, hist, cfg, bodyChannel, closed, waitGroup, ctxDone, rate, now, call, result,
                   enq, work, closePc, posts, outcome, dones, sink>>

\* line 166: close(t.bodyChannel)
CloseCall ==
    /\ transport = "async"
    /\ closePc = "idle"
    /\ closed' = TRUE
    /\ closePc' = "waiting"
    /\ UNCHANGED <<lib, hist, cfg, bodyChannel, waitGroup, ctxDone, rate, now, call, result, enq,
                   work, waitPc, posts, outcome, dones, sink>>

\* lines 167-168: t.Wait(); return nil
CloseReturn ==
    /\ closePc = "waiting"
    /\ waitGroup = 0
    /\ closePc' = "returned"
    /\ UNCHANGED <<lib, hist, cfg, bodyChannel, closed, waitGroup, ctxDone, rate, now, call, result,
                   enq, work, waitPc, posts, outcome, dones, sink>>

\* the context given to the transport is cancelled
Cancel ==
    /\ transport = "async"
    /\ ~ctxDone
    /\ ctxDone' = TRUE
    /\ UNCHANGED <<lib, hist, cfg, bodyChannel, closed, waitGroup, rate, now, call, result, enq,
                   work, ends, posts, outcome, dones, sink>>

\* time passes; the clock is read only to compare now - startTime with the
\* window, so time that passes once the window has run out is not counted
Tick ==
    /\ now < MaxTicks * TickStep
    /\ ~WindowExpired(now, startTime)
    /\ now' = now + TickStep
    /\ UNCHANGED <<lib, hist, cfg, bodyChannel, closed, waitGroup, ctxDone, rate, call, result, enq,
                   work, ends, posts, outcome, dones, sink>>

Next ==
    \/ \E c \in Calls : Send(c)
    \/ \E c \in Calls : Sync(c)
    \/ Worker
    \/ WaitCall
    \/ WaitReturn
    \/ CloseCall
    \/ CloseReturn
    \/ Cancel
    \/ Tick

Spec == Init /\ [][Next]_vars


(* ------------------ one producer on an AsyncTransport ----------------- *)

InitFifo ==
    /\ transport = "async"
    /\ Buffer = FifoBuffer
    /\ RetryAttempts = MaxRetry
    /\ ItemsPerMinute \in {0, MaxItemsPerMinute}
    /\ Token = "tok"
    /\ producers = 1
    /\ NetStart
    /\ LibIdle

NextFifo ==
    \/ \E c \in Calls : Send(c)
    \/ Worker
    \/ WaitCall
    \/ WaitReturn
    \/ CloseCall
    \/ CloseReturn
    \/ Cancel
    \/ Tick

SpecFifo == InitFifo /\ [][NextFifo]_vars

(* ------- an AsyncTransport that is neither closed nor cancelled ------- *)

\* NewAsyncTransport, used by one goroutine or by NumProducers of them
InitLive ==
    /\ transport = "async"
    /\ Buffer \in {0, MaxBuffer}
    /\ RetryAttempts \in {0, MaxRetry}
    /\ ItemsPerMinute \in {0, MaxItemsPerMinute}
    /\ Token \in {"", "tok"}
    /\ producers \in {1, NumProducers}
    /\ NetStart
    /\ LibIdle

\* Send on a channel that is never closed: no send panics, and the deferred
\* recover has nothing to recover
SendOpen(c) == SendCheck(c) \/ SendAdd(c) \/ SendSelect(c)

NextLive ==
    \/ \E c \in Calls : SendOpen(c)
    \/ Worker
    \/ WaitCall
    \/ WaitReturn
    \/ Tick

\* a Send that has passed the occupancy check runs on to its return
SendGoesOn(c) == SendAdd(c) \/ SendSelect(c)

\* the worker goroutine is scheduled, every post returns, a Send that has
\* begun runs on, and a Wait whose counter is zero returns
FairLive ==
    /\ WF_vars(Worker)
    /\ \A c \in Calls : WF_vars(SendGoesOn(c))
    /\ WF_vars(WaitReturn)

SpecLive == InitLive /\ [][NextLive]_vars /\ FairLive

(* ------------- SetRetryAttempts on a running AsyncTransport ----------- *)

InitRetry ==
    /\ transport = "async"
    /\ Buffer = FifoBuffer
    /\ RetryAttempts \in {0, MaxRetry}
    /\ ItemsPerMinute = 0
    /\ Token = "tok"
    /\ producers = 1
    /\ NetStart
    /\ LibIdle

\* a SetRetryAttempts that also gives the new value to the queued payloads
SetRetryAttemptsQueued(r) ==
    /\ RetryAttempts # r
    /\ RetryAttempts' = r
    /\ bodyChannel' = [i \in 1..Len(bodyChannel) |-> [bodyChannel[i] EXCEPT !.retriesLeft = r]]
    /\ UNCHANGED <<lib, hist, transport, Buffer, ItemsPerMinute, Token, PrintPayloadOnError,
                   producers, closed, waitGroup, ctxDone, rate, now, call, result,
                   enq, work, ends, posts, outcome, dones, sink>>

\* baseTransport.SetRetryAttempts
SetRetryAttempts(r) ==
    /\ RetryAttempts # r
    /\ RetryAttempts' = r
    /\ UNCHANGED <<lib, hist, transport, Buffer, ItemsPerMinute, Token, PrintPayloadOnError,
                   producers, bodyChannel, closed, waitGroup, ctxDone, rate, now, call, result,
                   enq, work, ends, posts, outcome, dones, sink>>

NextRetry ==
    \/ \E c \in Calls : SendOpen(c)
    \/ Worker
    \/ \E r \in 0..MaxRetry : SetRetryAttempts(r)

SpecRetry == InitRetry /\ [][NextRetry]_vars

(* ------------------------ a SyncTransport alone ----------------------- *)

\* NewSyncTransport, then RetryAttempts, ItemsPerMinute and Token as the
\* caller set them; RetryAttempts is an int and may be negative.  One
\* goroutine makes the Send calls, one after the other.
InitSync ==
    /\ transport = "sync"
    /\ Buffer = 0
    /\ RetryAttempts \in {-1, 0, MaxRetry}
    /\ ItemsPerMinute \in {0, MaxItemsPerMinute}
    /\ Token \in {"", "tok"}
    /\ producers = 1
    /\ NetStart
    /\ LibIdle

NextSync ==
    \/ \E c \in Calls : Sync(c)
    \/ Tick

\* a goroutine that is inside Send keeps running
FairSync == \A c \in Calls : WF_vars(Sync(c))

SpecSync == InitSync /\ [][NextSync]_vars /\ FairSync

(* ------------------------- baseTransport.post ------------------------- *)

\* the status codes an answer can carry
StatusCodes == {200, 201, 301, 400, 404, 429, 500, 503, 504}

\* what one call of post meets: json.Marshal fails or not, the HTTP client
\* fails with an error that isTemporary accepts or rejects, or answers with
\* a status code
Meets == [encode : BOOLEAN, net : {"none", "temporary", "permanent"}, status : StatusCodes]

\* the branch of post that such a call takes (lines 85-107, in their order)
Answer(m) ==
    IF m.encode THEN "encode_failure"
    ELSE IF m.net = "temporary" THEN "neterr_temporary"
    ELSE IF m.net = "permanent" THEN "neterr_permanent"
    ELSE IF m.status = 200 THEN "200"
    ELSE IF m.status = 429 THEN "429"
    ELSE "500"

\* a transport with its Token, on which post has not been called
InitPost ==
    /\ \E t \in {"", "tok"} :
         postCall = [token |-> t, calls |-> 0, meets |-> "none", canRetry |-> FALSE,
                     err |-> "nil"]
    /\ queue = "none"
    /\ ebCall = "none"
    /\ body = "none"
    /\ NetIdle

\* t.post(body)
Post(m) ==
    /\ postCall' = [postCall EXCEPT !.calls = 1,
                                    !.meets = m,
                                    !.canRetry = post(postCall.token, Answer(m)).canRetry,
                                    !.err = post(postCall.token, Answer(m)).err]
    /\ UNCHANGED <<queue, ebCall, body, net>>

NextPost == \E m \in Meets : Post(m)

SpecPost == InitPost /\ [][NextPost]_vars

(* --------------------------- telemetry Queue -------------------------- *)

\* make([]interface{}, n)
Make(n) == [i \in 1..n |-> Nil]

\* an enlargement that copies the old slice as it lies
GrowInPlace(ns, h, sz) == ns \o Make(sz)

\* Push, the two copy calls: the old elements from head on, then the
\* elements in front of head, then q.size empty slots
Grow(ns, h, sz) == SubSeq(ns, h + 1, Len(ns)) \o SubSeq(ns, 1, h) \o Make(sz)

\* the fields of the Queue; Go index i of nodes is position i + 1
nodes == queue.nodes
size == queue.size
head == queue.head
tail == queue.tail
count == queue.count

\* the value of the latest Pop, the slice of the latest Items, the elements
\* pushed and not popped (oldest first), the latest operation, head at the
\* latest enlargement (-1 before the first), the element of the next Push
popped == queue.popped
items == queue.items
pushed == queue.pushed
qop == queue.qop
grewAt == queue.grewAt
nextVal == queue.nextVal

\* NewQueue(size)
InitQueue ==
    /\ \E sz \in 0..MaxQueueSize :
         queue = [nodes |-> Make(sz), size |-> sz, head |-> 0, tail |-> 0, count |-> 0,
                  popped |-> Nil, items |-> <<>>, pushed |-> <<>>, qop |-> "new",
                  grewAt |-> -1, nextVal |-> 1]
    /\ ebCall = "none"
    /\ body = "none"
    /\ postCall = "none"
    /\ NetIdle

\* Queue.Push(n) with n the next element; q.nodes[q.tail] on a slice
\* without slots panics, and the deferred Unlock runs
Push ==
    /\ nextVal <= MaxPushes
    /\ LET full == head = tail /\ count > 0
           ns == IF full THEN Grow(nodes, head, size) ELSE nodes
           h == IF full THEN 0 ELSE head
           t == IF full THEN Len(nodes) ELSE tail
           g == IF full THEN head ELSE grewAt
       IN IF t < Len(ns)
          THEN queue' = [queue EXCEPT !.nodes = [ns EXCEPT ![t + 1] = nextVal],
                                      !.head = h,
                                      !.tail = (t + 1) % Len(ns),
                                      !.count = count + 1,
                                      !.pushed = Append(pushed, nextVal),
                                      !.qop = "push",
                                      !.grewAt = g,
                                      !.nextVal = nextVal + 1]
          ELSE queue' = [queue EXCEPT !.nodes = ns,
                                      !.head = h,
                                      !.tail = t,
                                      !.qop = "panic",
                                      !.grewAt = g,
                                      !.nextVal = nextVal + 1]
    /\ UNCHANGED <<ebCall, body, postCall, net>>

\* Queue.Pop()
Pop ==
    /\ IF count = 0
       THEN queue' = [queue EXCEPT !.popped = Nil, !.qop = "pop"]
       ELSE queue' = [queue EXCEPT !.popped = nodes[head + 1],
                                   !.head = (head + 1) % Len(nodes),
                                   !.count = count - 1,
                                   !.pushed = Tail(pushed),
                                   !.qop = "pop"]
    /\ UNCHANGED <<ebCall, body, postCall, net>>

\* Queue.Items(): q.nodes[:q.count]
Items ==
    /\ queue' = [queue EXCEPT !.items = SubSeq(nodes, 1, count), !.qop = "items"]
    /\ UNCHANGED <<ebCall, body, postCall, net>>

NextQueue == Push \/ Pop \/ Items

SpecQueue == InitQueue /\ [][NextQueue]_vars

(* ------------------------------ errorBody ----------------------------- *)

\* the error values (capability, Cause(), Stack()), configuration.fingerprint,
\* the position of the errorBody call, its err, parent, traceChain and
\* fingerprint, and the error it was called with
errs == ebCall.errs
fpOn == ebCall.fpOn
ebPc == ebCall.ebPc
ebErr == ebCall.ebErr
ebParent == ebCall.ebParent
traceChain == ebCall.traceChain
fingerprint == ebCall.fingerprint
reported == ebCall.reported
data == ebCall.data

Errors == 1..MaxChain
Frames == {1, 2}

\* what Stack() of a CauseStacker can return
Stacks == {NilStack, EmptyStack} \cup {[nil |-> FALSE, frames |-> <<f>>] : f \in Frames}

\* what BuildStack(4 + skip) can return: the frames of the running call
BuiltStacks == {[nil |-> FALSE, frames |-> <<f, 3>>] : f \in Frames}

nilErrTitle == "<nil>"

HexDigits == <<"0", "1", "2", "3", "4", "5", "6", "7", "8", "9", "a", "b", "c", "d", "e", "f">>

\* fmt.Sprintf("%x", n)
RECURSIVE Hex(_)
Hex(n) == IF n < 16 THEN HexDigits[n + 1] ELSE Hex(n \div 16) \o HexDigits[(n % 16) + 1]

\* the low half of a 32-bit value in "%x": four digits
Hex4(n) == HexDigits[((n \div 4096) % 16) + 1] \o HexDigits[((n \div 256) % 16) + 1]
           \o HexDigits[((n \div 16) % 16) + 1] \o HexDigits[(n % 16) + 1]

\* err.Error(), as text and as bytes
Message(e) == "e" \o ToString(e)
MessageBytes(e) == <<101, 48 + e>>

\* adler32.Checksum: the two running sums modulo 65521
RECURSIVE AdlerSums(_)
AdlerSums(bytes) ==
    IF bytes = <<>> THEN <<1, 0>>
    ELSE LET p == AdlerSums(SubSeq(bytes, 1, Len(bytes) - 1))
             a == (p[1] + bytes[Len(bytes)]) % 65521
         IN <<a, (p[2] + a) % 65521>>

\* fmt.Sprintf("{%x}", checksum) with checksum = b<<16 | a
AdlerTag(bytes) ==
    LET p == AdlerSums(bytes)
    IN "{" \o (IF p[2] = 0 THEN Hex(p[1]) ELSE Hex(p[2]) \o Hex4(p[1])) \o "}"

\* err.(CauseStacker) succeeds
IsCauseStacker(e) == e # Nil /\ errs[e].cs

\* errorClass: a nil error, an *errors.errorString, a named type
errorClass(e) ==
    IF e = Nil THEN nilErrTitle
    ELSE IF ~errs[e].cs THEN AdlerTag(MessageBytes(e))
    ELSE "rollbar.cs"

\* getCause
getCause(e) == IF IsCauseStacker(e) THEN errs[e].cause ELSE Nil

\* a getOrBuildStack that captures a stack for every error without one
getOrBuildStackAlwaysBuilds(e, parent, built) ==
    IF IsCauseStacker(e)
    THEN IF ~errs[e].stack.nil THEN errs[e].stack ELSE EmptyStack
    ELSE built

\* getOrBuildStack; built is what BuildStack(4 + skip) returns
getOrBuildStack(e, parent, built) ==
    IF IsCauseStacker(e)
    THEN IF ~errs[e].stack.nil THEN errs[e].stack ELSE EmptyStack
    ELSE IF ~IsCauseStacker(parent) THEN built ELSE EmptyStack

\* buildTrace
buildTrace(e, stack) ==
    [frames |-> stack.frames,
     class |-> errorClass(e),
     message |-> IF e # Nil THEN Message(e) ELSE nilErrTitle]

\* the checksum of the frames of a stack
RECURSIVE Digest(_)
Digest(frames) ==
    IF frames = <<>> THEN 0
    ELSE (Digest(SubSeq(frames, 1, Len(frames) - 1)) * 31 + frames[Len(frames)]) % 65536

\* a fingerprint that leaves out a stack without frames
FingerprintSkipEmpty(stack) == IF stack.frames = <<>> THEN "" ELSE Hex(Digest(stack.frames))

\* Stack.Fingerprint(): the checksum of the frames in "%x"
Fingerprint(stack) == Hex(Digest(stack.frames))

\* the error values of a run: a plain error has neither cause nor stack,
\* the cause of a CauseStacker is nil or an error further down
ErrorValues ==
    {f \in [Errors -> [cs : BOOLEAN, cause : {Nil} \cup Errors, stack : Stacks]] :
        \A e \in Errors :
           /\ f[e].cause = Nil \/ f[e].cause > e
           /\ ~f[e].cs => (f[e].cause = Nil /\ f[e].stack = NilStack)}

InitChain ==
    /\ \E ev \in ErrorValues, on \in BOOLEAN :
         ebCall = [errs |-> ev, fpOn |-> on, ebPc |-> "idle", ebErr |-> Nil,
                  ebParent |-> Nil, traceChain |-> <<>>, fingerprint |-> "",
                  reported |-> Nil]
    /\ queue = "none"
    /\ body = "none"
    /\ postCall = "none"
    /\ NetIdle

\* the loop of the earlier errorBody, for err != nil
ErrorBodyCallWhileNotNil(e) ==
    /\ ebPc \in {"idle", "done"}
    /\ ebCall' = [ebCall EXCEPT !.ebPc = IF e = Nil THEN "done" ELSE "loop",
                               !.ebErr = e,
                               !.ebParent = Nil,
                               !.traceChain = <<>>,
                               !.fingerprint = "",
                               !.reported = e]
    /\ UNCHANGED <<queue, body, postCall, net>>

\* errorBody(configuration, err, skip) is entered
ErrorBodyCall(e) ==
    /\ ebPc \in {"idle", "done"}
    /\ ebCall' = [ebCall EXCEPT !.ebPc = "loop",
                               !.ebErr = e,
                               !.ebParent = Nil,
                               !.traceChain = <<>>,
                               !.fingerprint = "",
                               !.reported = e]
    /\ UNCHANGED <<queue, body, postCall, net>>

\* a loop body that puts the new entry in front
ErrorBodyLoopPrepend ==
    /\ ebPc = "loop"
    /\ \E built \in BuiltStacks :
         LET stack == getOrBuildStack(ebErr, ebParent, built)
         IN ebCall' = [ebCall EXCEPT
                        !.traceChain = <<buildTrace(ebErr, stack)>> \o traceChain,
                        !.fingerprint = IF fpOn THEN fingerprint \o Fingerprint(stack)
                                        ELSE fingerprint,
                        !.ebParent = ebErr,
                        !.ebErr = getCause(ebErr),
                        !.ebPc = IF getCause(ebErr) = Nil THEN "done" ELSE "loop"]
    /\ UNCHANGED <<queue, body, postCall, net>>

\* a loop body that leaves an empty stack out of the fingerprint
ErrorBodyLoopSkipEmpty ==
    /\ ebPc = "loop"
    /\ \E built \in BuiltStacks :
         LET stack == getOrBuildStack(ebErr, ebParent, built)
         IN ebCall' = [ebCall EXCEPT
                        !.traceChain = Append(traceChain, buildTrace(ebErr, stack)),
                        !.fingerprint = IF fpOn /\ stack.frames # <<>>
                                        THEN fingerprint \o Fingerprint(stack)
                                        ELSE fingerprint,
                        !.ebParent = ebErr,
                        !.ebErr = getCause(ebErr),
                        !.ebPc = IF getCause(ebErr) = Nil THEN "done" ELSE "loop"]
    /\ UNCHANGED <<queue, body, postCall, net>>

\* a loop body that stops once it has made one entry per error value
ErrorBodyLoopCapped ==
    /\ ebPc = "loop"
    /\ \E built \in BuiltStacks :
         LET stack == getOrBuildStack(ebErr, ebParent, built)
             last == getCause(ebErr) = Nil \/ Len(traceChain) + 1 >= MaxChain
         IN ebCall' = [ebCall EXCEPT
                        !.traceChain = Append(traceChain, buildTrace(ebErr, stack)),
                        !.fingerprint = IF fpOn THEN fingerprint \o Fingerprint(stack)
                                        ELSE fingerprint,
                        !.ebParent = ebErr,
                        !.ebErr = IF last THEN Nil ELSE getCause(ebErr),
                        !.ebPc = IF last THEN "done" ELSE "loop"]
    /\ UNCHANGED <<queue, body, postCall, net>>

\* one pass through the loop of errorBody
ErrorBodyLoop ==
    /\ ebPc = "loop"
    /\ \E built \in BuiltStacks :
         LET stack == getOrBuildStack(ebErr, ebParent, built)
         IN ebCall' = [ebCall EXCEPT
                        !.traceChain = Append(traceChain, buildTrace(ebErr, stack)),
                        !.fingerprint = IF fpOn THEN fingerprint \o Fingerprint(stack)
                                        ELSE fingerprint,
                        !.ebParent = ebErr,
                        !.ebErr = getCause(ebErr),
                        !.ebPc = IF getCause(ebErr) = Nil THEN "done" ELSE "loop"]
    /\ UNCHANGED <<queue, body, postCall, net>>

NextChain ==
    \/ \E e \in {Nil} \cup Errors : ErrorBodyCall(e)
    \/ ErrorBodyLoop

SpecChain == InitChain /\ [][NextChain]_vars

(* --------------------------- addErrorToBody --------------------------- *)

\* the data map of a body before addErrorToBody has written to it
NoData == "none"

\* createConfiguration: fingerprint: false
InitErr ==
    /\ \E ev \in ErrorValues :
         ebCall = [errs |-> ev, fpOn |-> FALSE, ebPc |-> "idle", ebErr |-> Nil,
                  ebParent |-> Nil, traceChain |-> <<>>, fingerprint |-> "",
                  reported |-> Nil, data |-> NoData]
    /\ queue = "none"
    /\ body = "none"
    /\ postCall = "none"
    /\ NetIdle

\* Client.SetFingerprint, before the error is reported
SetFingerprint(b) ==
    /\ ebPc = "idle"
    /\ fpOn # b
    /\ ebCall' = [ebCall EXCEPT !.fpOn = b]
    /\ UNCHANGED <<queue, body, postCall, net>>

\* addErrorToBody is entered and calls errorBody (line 66)
AddErrorToBodyCall(e) ==
    /\ ebPc = "idle"
    /\ ErrorBodyCall(e)

\* an addErrorToBody that writes the fingerprint whatever the option
AddErrorToBodyAlways ==
    /\ ebPc = "done"
    /\ ebCall' = [ebCall EXCEPT
                   !.ebPc = "added",
                   !.data = [body |-> [trace_chain |-> traceChain],
                             fingerprint |-> fingerprint]]
    /\ UNCHANGED <<queue, body, postCall, net>>

\* addErrorToBody, lines 67-71: errorBody has returned
AddErrorToBody ==
    /\ ebPc = "done"
    /\ ebCall' = [ebCall EXCEPT
                   !.ebPc = "added",
                   !.data = IF fpOn
                            THEN [body |-> [trace_chain |-> traceChain],
                                  fingerprint |-> fingerprint]
                            ELSE [body |-> [trace_chain |-> traceChain]]]
    /\ UNCHANGED <<queue, body, postCall, net>>

NextErr ==
    \/ \E b \in BOOLEAN : SetFingerprint(b)
    \/ \E e \in {Nil} \cup Errors : AddErrorToBodyCall(e)
    \/ ErrorBodyLoop
    \/ AddErrorToBody

SpecErr == InitErr /\ [][NextErr]_vars

(* ------------------- errorBody on any cause relation ------------------ *)

\* the entries a walk is followed for: more than there are error values
MaxWalk == MaxChain + 2

\* error values whose Cause() may return any error value, the error itself
\* and one met earlier in the chain included
AnyCauseValues ==
    {f \in [Errors -> [cs : BOOLEAN, cause : {Nil} \cup Errors, stack : {NilStack}]] :
        \A e \in Errors : ~f[e].cs => f[e].cause = Nil}

InitWalk ==
    /\ \E ev \in AnyCauseValues, on \in BOOLEAN :
         ebCall = [errs |-> ev, fpOn |-> on, ebPc |-> "idle", ebErr |-> Nil,
                  ebParent |-> Nil, traceChain |-> <<>>, fingerprint |-> "",
                  reported |-> Nil]
    /\ queue = "none"
    /\ body = "none"
    /\ postCall = "none"
    /\ NetIdle

\* one pass through the loop, followed for MaxWalk entries
WalkLoop ==
    /\ Len(traceChain) < MaxWalk
    /\ ErrorBodyLoop

NextWalk ==
    \/ \E e \in {Nil} \cup Errors : ErrorBodyCall(e)
    \/ WalkLoop

\* a call of errorBody that has been entered keeps running
FairWalk == WF_vars(WalkLoop)

SpecWalk == InitWalk /\ [][NextWalk]_vars /\ FairWalk

(* ------------------------------ buildBody ----------------------------- *)

\* configuration.custom, data["custom"] of the latest payload, the extras
\* of the latest buildBody call, the latest operation
custom == body.custom
bodyCustom == body.bodyCustom
bbExtras == body.bbExtras
bbOp == body.bbOp

Keys == 1..MaxKeys
Vals == {"BASE", "EXTRA"}

\* the maps a caller can pass: nil, or any map over Keys
Maps == {NilMap} \cup {[nil |-> FALSE, kv |-> f] : f \in UNION {[D -> Vals] : D \in SUBSET Keys}}

\* buildCustom
buildCustom(base, extras) ==
    IF base.nil /\ extras.nil THEN NilMap
    ELSE [nil |-> FALSE,
          kv |-> [k \in (DOMAIN base.kv) \cup (DOMAIN extras.kv) |->
                    IF k \in DOMAIN extras.kv THEN extras.kv[k] ELSE base.kv[k]]]

\* a client whose configuration has no custom data
InitBody ==
    /\ body = [custom |-> NilMap, bodyCustom |-> NilMap, bbExtras |-> NilMap,
               bbOp |-> "none"]
    /\ queue = "none"
    /\ ebCall = "none"
    /\ postCall = "none"
    /\ NetIdle

\* Client.SetCustom
SetCustom(m) ==
    /\ body' = [body EXCEPT !.custom = m, !.bbOp = "set"]
    /\ UNCHANGED <<queue, ebCall, postCall, net>>

\* a buildBody that writes the extras into the configured map
BuildBodyAliased(extras) ==
    /\ body' = [custom |-> IF custom.nil THEN custom ELSE buildCustom(custom, extras),
                bodyCustom |-> buildCustom(custom, extras),
                bbExtras |-> extras,
                bbOp |-> "build"]
    /\ UNCHANGED <<queue, ebCall, postCall, net>>

\* buildBody: data["custom"] is set when buildCustom returns a map
BuildBody(extras) ==
    /\ body' = [custom |-> custom,
                bodyCustom |-> buildCustom(custom, extras),
                bbExtras |-> extras,
                bbOp |-> "build"]
    /\ UNCHANGED <<queue, ebCall, postCall, net>>

NextBody ==
    \/ \E m \in Maps : SetCustom(m)
    \/ \E x \in Maps : BuildBody(x)

SpecBody == InitBody /\ [][NextBody]_vars

(* ------------------ Client.SetToken, Client.SetEndpoint --------------- *)

\* the goroutines that call the setters of one Client
NumSetters == 2
Setters == 1..NumSetters

Tokens == {"", "tok", "tok2"}

\* the endpoint of createConfiguration and another one
DefaultEndpoint == "https://api.rollbar.com/api/1/item/"
Endpoints == {DefaultEndpoint, "https://example.test/item/"}

configurationToken == body.token
configurationEndpoint == body.endpoint
transportToken == body.Token
transportEndpoint == body.Endpoint
setPc == body.setPc
setArg == body.setArg
overlapped == body.overlapped

\* NewAsync / NewSync: createConfiguration, then the transport made from
\* the token and configuration.endpoint
InitClient ==
    /\ \E t \in Tokens :
         body = [token |-> t, endpoint |-> DefaultEndpoint,
                 Token |-> t, Endpoint |-> DefaultEndpoint,
                 setPc |-> [g \in Setters |-> "idle"],
                 setArg |-> [g \in Setters |-> ""],
                 overlapped |-> FALSE]
    /\ queue = "none"
    /\ ebCall = "none"
    /\ postCall = "none"
    /\ NetIdle

\* another goroutine is inside a setter
OtherSetting(g) == \E h \in Setters : h # g /\ setPc[h] # "idle"

\* Client.SetToken, first statement: c.configuration.token = token
SetTokenConfiguration(g, t) ==
    /\ setPc[g] = "idle"
    /\ body' = [body EXCEPT !.token = t,
                            !.setPc[g] = "token",
                            !.setArg[g] = t,
                            !.overlapped = @ \/ OtherSetting(g)]
    /\ UNCHANGED <<queue, ebCall, postCall, net>>

\* a transport whose SetToken keeps the token it has
SetTokenTransportKept(g) ==
    /\ setPc[g] = "token"
    /\ body' = [body EXCEPT !.setPc[g] = "idle"]
    /\ UNCHANGED <<queue, ebCall, postCall, net>>

\* Client.SetToken, second statement: c.Transport.SetToken(token)
SetTokenTransport(g) ==
    /\ setPc[g] = "token"
    /\ body' = [body EXCEPT !.Token = setArg[g], !.setPc[g] = "idle"]
    /\ UNCHANGED <<queue, ebCall, postCall, net>>

\* Client.SetEndpoint, first statement: c.configuration.endpoint = endpoint
SetEndpointConfiguration(g, e) ==
    /\ setPc[g] = "idle"
    /\ body' = [body EXCEPT !.endpoint = e,
                            !.setPc[g] = "endpoint",
                            !.setArg[g] = e,
                            !.overlapped = @ \/ OtherSetting(g)]
    /\ UNCHANGED <<queue, ebCall, postCall, net>>

\* Client.SetEndpoint, second statement: c.Transport.SetEndpoint(endpoint)
SetEndpointTransport(g) ==
    /\ setPc[g] = "endpoint"
    /\ body' = [body EXCEPT !.Endpoint = setArg[g], !.setPc[g] = "idle"]
    /\ UNCHANGED <<queue, ebCall, postCall, net>>

NextClient ==
    \/ \E g \in Setters, t \in Tokens : SetTokenConfiguration(g, t)
    \/ \E g \in Setters : SetTokenTransport(g)
    \/ \E g \in Setters, e \in Endpoints : SetEndpointConfiguration(g, e)
    \/ \E g \in Setters : SetEndpointTransport(g)

SpecClient == InitClient /\ [][NextClient]_vars

(* ============================ properties ============================== *)

Terminal(c) == outcome[c] # "none"
InChannel(c) == \E i \in 1..Len(bodyChannel) : bodyChannel[i].id = c
Min(a, b) == IF a < b THEN a ELSE b
NothingDequeued == wpc = "recv" /\ \A c \in Calls : posts[c] = 0 /\ outcome[c] = "none"
WorkerIdle == wpc = "exited" \/ (wpc = "recv" /\ bodyChannel = <<>> /\ ~closed)
Quiescent == WorkerIdle /\ \A c \in Calls : pc[c] \in {"idle", "done"}
InFlight == Cardinality({c \in Calls : pc[c] = "post"})

\* C1: a Send that finds the channel holding Buffer items (Buffer = 0
\* included) ends in that one step with ErrBufferFull, enqueues nothing and
\* leaves the WaitGroup counter and the channel as they were.
SendRejectsWhenFull ==
    [][\A c \in Calls :
          (transport = "async" /\ pc[c] = "idle" /\ pc'[c] # "idle"
             /\ Len(bodyChannel) >= Buffer)
          => /\ pc'[c] = "done"
             /\ result'[c] = "ErrBufferFull"
             /\ waitGroup' = waitGroup
             /\ bodyChannel' = bodyChannel
             /\ dones' = dones
             /\ ~enq'[c]]_vars

SendRejectedOnFullChannel ==
    \E c \in Calls :
        /\ result[c] = "ErrBufferFull"
        /\ Buffer > 0
        /\ Len(bodyChannel) = Buffer

\* C2: while the worker has dequeued nothing (and the channel is neither
\* closed nor cancelled), every Send that returned nil has its payload in
\* the channel, every finished Send returned nil or ErrBufferFull, and once
\* all Sends have returned exactly min(Buffer, number of Sends) returned nil.
ConcurrentSendsFillExactly ==
    (transport = "async" /\ NothingDequeued /\ ~closed /\ ~ctxDone)
    => /\ \A c \in Calls : result[c] = "nil" => InChannel(c)
       /\ \A c \in Calls : pc[c] = "done" => result[c] \in {"nil", "ErrBufferFull"}
       /\ (\A c \in Calls : pc[c] = "done")
            => Cardinality({c \in Calls : result[c] = "nil"}) = Min(Buffer, MaxSends)

CloseDrainsQueue ==
    (closed /\ wpc = "exited" /\ ~ctxDone)
    => \A c \in Calls : enq[c] => Terminal(c)

\* C5: a Send that began after Close had returned ends with
\* ErrChannelClosed or ErrBufferFull, and if it incremented the WaitGroup
\* counter it also decremented it.
SendAfterCloseFails ==
    \A c \in Calls :
        (afterClose[c] /\ pc[c] = "done")
        => /\ result[c] \in {"ErrChannelClosed", "ErrBufferFull"}
           /\ (steps[c] >= 2 => dones[c] = 1)

\* C6: after cancellation, when every Send has returned and the worker has
\* nothing left that it can do, the WaitGroup counter is zero (so that no
\* Wait stays blocked); stated for runs without Close in which every Send
\* that returned nil did enqueue its payload.
CancelledStillDrains ==
    (ctxDone /\ ~closed /\ Quiescent /\ \A c \in Calls : result[c] = "nil" => enq[c])
    => waitGroup = 0

\* the budget of a payload and the posts made for it
BudgetInv ==
    transport = "async" =>
      /\ \A c \in Calls :
            /\ posts[c] <= budget[c] + 1
            /\ dones[c] <= 1
            /\ outcome[c] = "dropped" => dones[c] = 1
      /\ \A i \in 1..Len(bodyChannel) :
            /\ bodyChannel[i].retriesLeft >= 0
            /\ bodyChannel[i].retriesLeft
                 = budget[bodyChannel[i].id] - posts[bodyChannel[i].id]
      /\ wpc = "requeue" =>
            /\ cur.retriesLeft >= 0
            /\ cur.retriesLeft = budget[cur.id] - posts[cur.id]

\* a payload with a terminal outcome is not posted or marked again
TerminalIsFinal ==
    \A c \in Calls :
        (transport = "async" /\ Terminal(c))
        => posts'[c] = posts[c] /\ outcome'[c] = outcome[c] /\ dones'[c] = dones[c]

RateLimitSkipsBeyondN ==
    /\ []((ItemsPerMinute > 0 /\ ~win.fail /\ ~win.racy)
           => /\ win.ok + InFlight = Min(win.seen, ItemsPerMinute)
              /\ perMinCounter <= ItemsPerMinute
              /\ wpc # "incr" => perMinCounter = win.ok)
    /\ [][(ItemsPerMinute > 0 /\ ~WindowExpired(now, startTime)
             /\ perMinCounter >= ItemsPerMinute)
          => /\ (wpc = "process" /\ wpc' # "process")
                  => /\ posts' = posts
                     /\ bodyChannel' = bodyChannel
                     /\ outcome'[cur.id] = "skipped"
                     /\ dones'[cur.id] = dones[cur.id] + 1
                     /\ waitGroup' = waitGroup - 1
                     /\ perMinCounter' = perMinCounter
             /\ \A c \in Calls :
                  (pc[c] = "doSend" /\ pc'[c] # "doSend")
                  => /\ posts' = posts
                     /\ result'[c] = "nil"
                     /\ pc'[c] = "done"
                     /\ perMinCounter' = perMinCounter]_vars

SecondPayloadSkipped ==
    /\ transport = "async"
    /\ ItemsPerMinute = 1
    /\ perMinCounter = 1
    /\ ~win.fail
    /\ win.seen = 2
    /\ \E c, d \in Calls : outcome[c] = "posted" /\ outcome[d] = "skipped"
                           /\ dones[d] = 1

\* C9: a Send call that has begun can always take its next step, whatever
\* the worker, Close and the cancellation have done, and it ends after at
\* most four steps of its own.
SendNeverBlocks ==
    transport = "async" =>
      \A c \in Calls :
        /\ pc[c] \in {"add", "select", "panic"} => ENABLED Send(c)
        /\ (pc[c] = "idle" /\ MayStart(c)) => ENABLED Send(c)
        /\ steps[c] <= 4
        /\ steps[c] = 4 => pc[c] = "done"

SendAtFullChannel ==
    \E c \in Calls :
        /\ pc[c] = "select"
        /\ Buffer > 0
        /\ Len(bodyChannel) = Buffer
        /\ ~closed
        /\ ~ctxDone

SingleProducerFifo ==
    /\ [](wpc = "process" => ahead[cur.id] = {})
    /\ [][\A c, d \in Calls :
            (c < d /\ Owner(c) = Owner(d) /\ enq[c] /\ posts[d] = 0 /\ posts'[d] = 1)
            => (posts[c] >= 1 \/ outcome[c] = "skipped")]_vars

RetriedBehindNewer ==
    \E c, d \in Calls :
        /\ producers = 1
        /\ c < d
        /\ posts[c] = 1
        /\ d \in ahead[c]
        /\ wpc = "process"
        /\ cur.id = d

\* C12: a payload reaches at most one terminal outcome and is marked
\* processed at most once; and when every Send has returned and the worker
\* waits at the empty, open channel (no Close, no cancellation), every
\* payload whose Send returned nil was dequeued and has reached its
\* terminal outcome.
NoAcceptedPayloadLost ==
    transport = "async" =>
      /\ \A c \in Calls : dones[c] <= 1 /\ (Terminal(c) => dones[c] = 1)
      /\ (Quiescent /\ ~closed /\ ~ctxDone)
           => \A c \in Calls : result[c] = "nil" => (enq[c] /\ Terminal(c))

\* C13: a finished SyncTransport.Send has returned nil exactly when it
\* ended with a successful post or a skip (rate limit, or the empty token);
\* otherwise it has returned the error of its latest post.  A post answered
\* with HTTP 500 is the last one, and the Send returns that HTTP error: when
\* the first answer is 500 there is exactly one attempt.
SyncSendReturnsFinalError ==
    /\ [](transport = "sync" =>
            \A c \in Calls :
              pc[c] = "done" =>
                /\ (result[c] = "nil") <=> (outcome[c] \in {"posted", "skipped"})
                /\ (result[c] = "nil" /\ outcome[c] = "posted")
                      => (Token = "" \/ lastResp[c] = "200")
                /\ result[c] # "nil"
                      => /\ posts[c] >= 1
                         /\ Token # ""
                         /\ lastResp[c] # "200"
                         /\ result[c] = post(Token, lastResp[c]).err)
    /\ [][\A c \in Calls :
            (transport = "sync" /\ Token # "" /\ posts'[c] = posts[c] + 1
               /\ lastResp'[c] = "500")
            => /\ pc'[c] = "done"
               /\ result'[c] = "http"
               /\ retriesLeft'[c] = retriesLeft[c]]_vars

ServerErrorReturnedAfterOneAttempt ==
    \E c \in Calls :
        /\ transport = "sync"
        /\ RetryAttempts >= 1
        /\ pc[c] = "done"
        /\ lastResp[c] = "500"
        /\ posts[c] = 1
        /\ result[c] = "http"

\* C14: with an empty token, post returns (FALSE, nil) whatever the remote
\* end would answer and asks the HTTP client for nothing; a synchronous
\* Send returns nil; an asynchronous payload is posted at most once, is
\* marked processed in that step and is never put back for a retry.
EmptyTokenIsNoop ==
    Token = "" =>
      /\ \A resp \in Responses :
            /\ ~post(Token, resp).canRetry
            /\ post(Token, resp).err = "nil"
            /\ ~post(Token, resp).sent
      /\ wpc # "requeue"
      /\ \A c \in Calls :
            /\ posts[c] <= 1
            /\ (transport = "sync" /\ pc[c] = "done") => result[c] = "nil"
            /\ (transport = "async" /\ posts[c] = 1)
                  => (dones[c] = 1 /\ outcome[c] = "posted")
            /\ outcome[c] \in {"none", "posted", "skipped"}

EmptyTokenPayloadProcessed ==
    \E c \in Calls :
        /\ Token = ""
        /\ transport = "async"
        /\ RetryAttempts >= 1
        /\ posts[c] = 1
        /\ dones[c] = 1
        /\ waitGroup = 0

\* the cause chain of an error: the error, then the causes its
\* CauseStackers name, down to the first error without a cause
RECURSIVE CauseChain(_)
CauseChain(e) ==
    IF e # Nil /\ errs[e].cs /\ errs[e].cause # Nil
    THEN <<e>> \o CauseChain(errs[e].cause)
    ELSE <<e>>

\* the fingerprints of the entries of a chain, one after the other, with
\* "0" for an entry without frames
RECURSIVE ChainFingerprint(_)
ChainFingerprint(chain) ==
    IF chain = <<>> THEN ""
    ELSE (IF Head(chain).frames = <<>> THEN "0"
          ELSE Fingerprint([nil |-> FALSE, frames |-> Head(chain).frames]))
         \o ChainFingerprint(Tail(chain))

\* C15: for a reported error whose cause chain has N errors, errorBody
\* returns a trace_chain of exactly N entries carrying the messages of the
\* chain in walk order (while the loop runs, a proper prefix of them).
TraceChainFollowsCauses ==
    reported # Nil =>
      LET chain == CauseChain(reported)
      IN /\ ebPc = "done" => Len(traceChain) = Len(chain)
         /\ ebPc = "loop" => Len(traceChain) < Len(chain)
         /\ ebPc \in {"loop", "done"} =>
               \A i \in 1..Len(traceChain) : traceChain[i].message = Message(chain[i])

ChainOfThreeWalked ==
    /\ ebPc = "done"
    /\ Len(CauseChain(reported)) = MaxChain
    /\ Len(traceChain) = MaxChain
    /\ traceChain[1].message = Message(reported)

\* C16: with fingerprinting enabled the returned fingerprint is the
\* concatenation, in chain order, of the fingerprints of the stacks of the
\* entries, "0" for an entry without frames; a CauseStacker with a stack
\* contributes its own stack and a plain cause of a CauseStacker an empty one.
FingerprintConcatenatesStacks ==
    (ebPc = "done" /\ fpOn) =>
      /\ fingerprint = ChainFingerprint(traceChain)
      /\ \A i \in 1..Len(traceChain) :
            LET e == CauseChain(reported)[i]
            IN /\ (IsCauseStacker(e) /\ ~errs[e].stack.nil)
                    => traceChain[i].frames = errs[e].stack.frames
               /\ (IsCauseStacker(e) /\ errs[e].stack.nil) => traceChain[i].frames = <<>>
               /\ (i > 1 /\ ~IsCauseStacker(e)) => traceChain[i].frames = <<>>

TwoStacksThenPlainCause ==
    /\ ebPc = "done"
    /\ fpOn
    /\ Len(traceChain) = 3
    /\ traceChain[1].frames # <<>>
    /\ traceChain[2].frames # <<>>
    /\ ~IsCauseStacker(CauseChain(reported)[3])
    /\ fingerprint = Fingerprint(errs[CauseChain(reported)[1]].stack)
                       \o Fingerprint(errs[CauseChain(reported)[2]].stack) \o "0"

\* C17: errorBody returns at least one entry, also for a nil error; the
\* entry of a nil error has "<nil>" as class and as message.
TraceChainNeverEmpty ==
    ebPc = "done" =>
      /\ Len(traceChain) >= 1
      /\ reported = Nil =>
            /\ Len(traceChain) = 1
            /\ traceChain[1].class = "<nil>"
            /\ traceChain[1].message = "<nil>"

NilErrorReported ==
    /\ ebPc = "done"
    /\ reported = Nil
    /\ Len(traceChain) = 1

Contents == [i \in 1..count |-> nodes[((head + i - 1) % Len(nodes)) + 1]]

\* C19: the buffer always holds exactly the elements pushed and not yet
\* popped, in push order (also across an enlargement), and a Pop returns nil
\* when there is none and otherwise returns and removes the oldest of them.
QueueIsFifo ==
    /\ [](Contents = pushed)
    /\ [][qop' = "pop" =>
            IF pushed = <<>>
            THEN popped' = Nil /\ pushed' = pushed
            ELSE popped' = Head(pushed) /\ popped' # Nil /\ pushed' = Tail(pushed)]_vars

PoppedAfterWrappedGrowth ==
    /\ grewAt > 0
    /\ Len(nodes) > size
    /\ qop = "pop"
    /\ popped # Nil
    /\ pushed # <<>>

\* C20: the slice that Items has just returned holds the elements pushed
\* and not yet popped, oldest first.
ItemsReturnsQueueContents ==
    qop = "items" => items = pushed

\* the post answered with resp failed, and may or may not be tried again
TemporaryFailure(resp) == post(Token, resp).err # "nil" /\ post(Token, resp).canRetry
PermanentFailure(resp) == post(Token, resp).err # "nil" /\ ~post(Token, resp).canRetry

\* every post made so far has failed with a temporary error (a call makes a
\* further post only after a temporary failure of the one before)
EveryPostTemporary == \A d \in Calls : posts[d] >= 1 => TemporaryFailure(lastResp[d])

\* the post attempts that a retry budget allows
Attempts(b) == IF b <= 0 THEN 1 ELSE b + 1

\* C21: a SyncTransport.Send that has begun ends.  When every post has
\* failed with a temporary error, a finished Send has made exactly
\* RetryAttempts + 1 posts (one when RetryAttempts <= 0) and has returned the
\* error of the last one.  A post that fails permanently ends the Send in
\* that step with that error and takes nothing from the retry budget, and a
\* finished Send posts no more.
SyncSendTerminates ==
    /\ [](\A c \in Calls :
            (pc[c] = "done" /\ EveryPostTemporary)
              => /\ posts[c] = Attempts(budget[c])
                 /\ result[c] # "nil"
                 /\ result[c] = post(Token, lastResp[c]).err)
    /\ [][\A c \in Calls :
            /\ (posts'[c] = posts[c] + 1 /\ PermanentFailure(lastResp'[c]))
                 => /\ pc'[c] = "done"
                    /\ result'[c] = post(Token, lastResp'[c]).err
                    /\ retriesLeft'[c] = retriesLeft[c]
            /\ pc[c] = "done" => (pc'[c] = "done" /\ posts'[c] = posts[c])]_vars
    /\ \A c \in Calls : (pc[c] \in {"doSend", "post"}) ~> (pc[c] = "done")

SyncRetriesExhausted ==
    \E c \in Calls :
        /\ pc[c] = "done"
        /\ EveryPostTemporary
        /\ budget[c] = MaxRetry
        /\ posts[c] = MaxRetry + 1
        /\ retriesLeft[c] = 0
        /\ result[c] \in {"http", "net"}

\* the step is a post of payload c that returned no error / an error
PostSucceeds(c) == posts'[c] = posts[c] + 1 /\ outcome'[c] = "posted"
PostFails(c) == posts'[c] = posts[c] + 1 /\ outcome'[c] # "posted"

\* the step is a pass through the rate limiter that skips payload c
RateLimitSkip(c) == outcome[c] = "none" /\ outcome'[c] = "skipped"

\* the step starts a new window: startTime = now, perMinCounter = 0
RollOver == WindowExpired(now, startTime) /\ startTime' = now

\* C22: perMinCounter changes only by +1 for a post that returned no error
\* (in the worker, in the statement that follows the post and its Done) and
\* by the reset to 0 of a window roll-over; every such post is counted
\* once; a failed post and a rate-limit skip leave it as the roll-over of
\* the same pass left it, a retry re-enqueue and a rejected Send leave it
\* as it was.
CounterCountsSuccessfulPosts ==
    [][/\ perMinCounter' # perMinCounter
            => \/ /\ perMinCounter' = perMinCounter + 1
                  /\ \/ wpc = "incr"
                     \/ \E c \in Calls : transport = "sync" /\ PostSucceeds(c)
               \/ /\ perMinCounter' = 0
                  /\ RollOver
       /\ \A c \in Calls :
            /\ (transport = "sync" /\ PostSucceeds(c))
                 => perMinCounter' = perMinCounter + 1
            /\ (transport = "async" /\ PostSucceeds(c))
                 => (wpc' = "incr" /\ cur'.id = c)
            /\ (PostFails(c) \/ RateLimitSkip(c))
                 => perMinCounter' = (IF RollOver THEN 0 ELSE perMinCounter)
            /\ (pc[c] # "done" /\ pc'[c] = "done" /\ result'[c] = "ErrBufferFull")
                 => perMinCounter' = perMinCounter
       /\ (wpc = "incr" /\ wpc' # "incr") => perMinCounter' = perMinCounter + 1
       /\ (wpc = "requeue" /\ wpc' # "requeue") => perMinCounter' = perMinCounter]_vars

CountedOnceThenFailedPost ==
    /\ perMinCounter = 1
    /\ wpc = "recv"
    /\ \E c, d \in Calls :
          /\ outcome[c] = "posted"
          /\ outcome[d] = "dropped"
          /\ posts[d] = 1
          /\ ~WindowExpired(now, startTime)

\* the successful post of the worker that perMinCounter does not show yet
Uncounted == IF wpc = "incr" THEN 1 ELSE 0

\* the payloads for which post was called
Posted == {c \in Calls : posts[c] >= 1}

\* C23: with an empty token every call of post counts as a successful
\* send: the payload is posted once and ends as "posted", and perMinCounter
\* shows one per such post as long as the window of the fresh transport
\* lasts (never more than one per post); so a Send is skipped only under a
\* limit that earlier sends used up, and without a limit every finished
\* synchronous Send has been counted.
EmptyTokenSendsAreCounted ==
    Token = "" =>
      /\ \A c \in Posted : posts[c] = 1 /\ outcome[c] = "posted"
      /\ perMinCounter + Uncounted <= Cardinality(Posted)
      /\ now = 0 => perMinCounter + Uncounted = Cardinality(Posted)
      /\ \A c \in Calls :
            outcome[c] = "skipped"
              => (ItemsPerMinute > 0 /\ posts[c] = 0 /\ Posted # {})
      /\ (transport = "sync" /\ ItemsPerMinute = 0)
            => \A c \in Calls : pc[c] = "done" => c \in Posted

TwoEmptyTokenSendsCounted ==
    /\ transport = "sync"
    /\ Token = ""
    /\ now = 0
    /\ \A c \in Calls : pc[c] = "done"
    /\ perMinCounter = MaxSends
    /\ perMinCounter >= 2

\* C24: what post returns is fixed by the table: nothing and "no retry" for
\* an empty token whatever else holds; otherwise a permanent error for a
\* JSON encoding failure, an error that is temporary exactly when
\* isTemporary accepts it for a failed request, a temporary error for status
\* 429, a permanent error for any other status but 200, and nothing and
\* "no retry" for status 200.
PostClassifiesFailures ==
    (postCall.calls > 0) =>
      LET m == postCall.meets
          failed == postCall.err # "nil"
          temporary == failed /\ postCall.canRetry
          permanent == failed /\ ~postCall.canRetry
          nothing == ~failed /\ ~postCall.canRetry
      IN IF postCall.token = "" THEN nothing
         ELSE IF m.encode THEN permanent
         ELSE IF m.net # "none" THEN (temporary <=> m.net = "temporary") /\ failed
         ELSE IF m.status = 429 THEN temporary
         ELSE IF m.status = 200 THEN nothing
         ELSE permanent

OtherStatusIsPermanent ==
    /\ postCall.calls > 0
    /\ postCall.token # ""
    /\ ~postCall.meets.encode
    /\ postCall.meets.net = "none"
    /\ postCall.meets.status = 503
    /\ postCall.err = "http"
    /\ ~postCall.canRetry

\* C25: the worker can always take the step that follows a temporary
\* failure with budget left, and when the channel is full at that step the
\* payload is given up as a retry failure: nothing is put back, the payload
\* reaches a terminal outcome and is marked processed, and the worker is
\* back at the head of its loop.
RequeueNeverBlocksWhenFull ==
    /\ [](wpc = "requeue" => ENABLED WorkerRequeue)
    /\ [][(wpc = "requeue" /\ wpc' # "requeue" /\ ~HasRoom(bodyChannel, Buffer))
            => /\ bodyChannel' = bodyChannel
               /\ outcome'[cur.id] # "none"
               /\ dones'[cur.id] = dones[cur.id] + 1
               /\ waitGroup' = waitGroup - 1
               /\ wpc' = "recv"]_vars

\* C26: once the context is cancelled, the worker's step out of the
\* re-enqueue select puts nothing back into the channel, writes the payload
\* to the sink and marks it processed
CancelAbandonsRetries ==
    [][(wpc = "requeue" /\ ctxDone /\ wpc' # "requeue")
          => /\ bodyChannel' = bodyChannel
             /\ <<cur.id, "payload">> \in sink'
             /\ dones'[cur.id] = dones[cur.id] + 1]_vars

\* time.Now().Sub(transport.startTime).Seconds()
elapsedTime == now - startTime

\* the step is a send attempt: the worker's pass over the payload it holds,
\* or a doSend's pass through its window check
AttemptStep ==
    \/ wpc = "process" /\ wpc' # "process"
    \/ \E c \in Calls : pc[c] = "doSend" /\ pc'[c] # "doSend"

\* the attempt of the step goes on to post
AttemptPosts ==
    \/ wpc = "process" /\ posts'[cur.id] = posts[cur.id] + 1
    \/ \E c \in Calls : pc[c] = "doSend" /\ pc'[c] = "post"

\* C27: a send attempt that finds 60 seconds or more (or a negative time)
\* elapsed since startTime sets startTime to now and the counter to zero
\* and passes the rate check; any other attempt leaves both as they are
WindowResetsAtAttempt ==
    [][AttemptStep =>
         IF elapsedTime < 0 \/ elapsedTime >= Window
         THEN /\ startTime' = now
              /\ perMinCounter' = 0
              /\ AttemptPosts
         ELSE /\ startTime' = startTime
              /\ perMinCounter' = perMinCounter]_vars

\* a transport whose window held its ItemsPerMinute posts posts again in the
\* window that an attempt opened 60 seconds later
SendsAgainAfterExpiry ==
    /\ ItemsPerMinute > 0
    /\ now >= Window
    /\ startTime = now
    /\ perMinCounter = 0
    /\ Cardinality({c \in Calls : outcome[c] = "posted"}) >= ItemsPerMinute
    /\ \E c \in Calls :
         /\ outcome[c] = "none"
         /\ pc[c] = "post" \/ (wpc = "requeue" /\ cur.id = c)

\* the step is one pass of errorBody's loop over ebErr
ChainPass == ebPc = "loop" /\ Len(traceChain') = Len(traceChain) + 1

\* the stack of an entry: its own for an error with a Stack() accessor, an
\* empty one when that accessor returns nil; for any other error a captured
\* one unless its parent has the accessor, and then an empty one
StackOrEmpty(e, parent, built) ==
    IF IsCauseStacker(e)
    THEN IF errs[e].stack = NilStack THEN EmptyStack ELSE errs[e].stack
    ELSE IF ~IsCauseStacker(parent) THEN built ELSE EmptyStack

\* C28 as stated: every pass selects for its entry the error's own stack
\* when the error exposes one, whatever the parent; otherwise a captured
\* stack when the parent is absent or exposes none and an empty stack when
\* the parent exposes one
StackSelectionAsStated ==
    [][ChainPass =>
         \E built \in BuiltStacks :
            LET stated == IF IsCauseStacker(ebErr) THEN errs[ebErr].stack
                          ELSE IF ~IsCauseStacker(ebParent) THEN built ELSE EmptyStack
            IN /\ getOrBuildStack(ebErr, ebParent, built) = stated
               /\ traceChain' = Append(traceChain, buildTrace(ebErr, stated))]_vars

\* C28 amended: as stated, except that an error whose Stack() returns nil
\* gets an empty stack, never the nil one and never a captured one
StackSelection ==
    [][ChainPass =>
         \E built \in BuiltStacks :
            /\ getOrBuildStack(ebErr, ebParent, built) = StackOrEmpty(ebErr, ebParent, built)
            /\ traceChain' = Append(traceChain,
                                    buildTrace(ebErr, StackOrEmpty(ebErr, ebParent, built)))]_vars

\* a pass has recorded a CauseStacker without a parent whose Stack() is nil
NilStackRecordedEmpty ==
    /\ ebPc \in {"loop", "done"}
    /\ Len(traceChain) >= 1
    /\ IsCauseStacker(reported)
    /\ errs[reported].stack = NilStack
    /\ traceChain[1].frames = <<>>

\* the error that n calls of Cause() lead to from e, nil once a Cause()
\* has returned nil or e has no Cause()
RECURSIVE CauseAfter(_, _)
CauseAfter(e, n) ==
    IF n = 0 \/ e = Nil THEN e
    ELSE CauseAfter(IF errs[e].cs THEN errs[e].cause ELSE Nil, n - 1)

\* the causes of e come back to an error already met: with MaxChain error
\* values, a walk that has not met nil after MaxChain causes has repeated one
CausesCycle(e) == CauseAfter(e, MaxChain) # Nil

\* C29: a pass of errorBody's loop ends the call exactly when the cause of
\* its error is nil; a call on an error whose causes lead to nil returns,
\* and a call on an error whose causes come back to an ancestor never does
ErrorBodyEndsAtNilCause ==
    /\ [][ChainPass => (ebPc' = "done" <=> CauseAfter(ebErr, 1) = Nil)]_vars
    /\ [][(ebPc = "loop" /\ CausesCycle(ebErr))
             => (ebPc' = "loop" /\ CausesCycle(ebErr'))]_vars
    /\ [](ENABLED WalkLoop <=> (ebPc = "loop" /\ Len(traceChain) < MaxWalk))
    /\ ((ebPc = "loop" /\ ~CausesCycle(ebErr)) ~> ebPc = "done")

\* a walk round a cycle has made more entries than there are error values
WalkOutrunsErrorValues ==
    /\ ebPc = "loop"
    /\ CausesCycle(ebErr)
    /\ Len(traceChain) > MaxChain

\* the frames of the entry that the pass of the step has recorded
NewEntryFrames == traceChain'[Len(traceChain')].frames

\* C30 as stated: with fingerprinting on, a pass that records an entry with
\* an empty stack leaves the running fingerprint as it is, and any other
\* pass appends the fingerprint of the entry's stack
EmptyStacksSkipped ==
    [][(ChainPass /\ fpOn)
         => fingerprint' = IF NewEntryFrames = <<>> THEN fingerprint
                           ELSE fingerprint \o Hex(Digest(NewEntryFrames))]_vars

\* C30 amended: with fingerprinting on, every pass appends to the running
\* fingerprint, "0" for an entry recorded with an empty stack
EveryEntryExtendsFingerprint ==
    [][(ChainPass /\ fpOn)
         => fingerprint' = IF NewEntryFrames = <<>> THEN fingerprint \o "0"
                           ELSE fingerprint \o Hex(Digest(NewEntryFrames))]_vars

\* a second entry with an empty stack has added "0" to the fingerprint of
\* the first entry's stack
EmptyStackAddedZero ==
    /\ fpOn
    /\ Len(traceChain) = 2
    /\ traceChain[1].frames # <<>>
    /\ traceChain[2].frames = <<>>
    /\ fingerprint = Hex(Digest(traceChain[1].frames)) \o "0"

\* C31: with the fingerprint option off, errorBody's fingerprint is the
\* empty string at every point of the walk and the data map that
\* addErrorToBody leaves has no "fingerprint" key; with the option on, the
\* key is there and holds what errorBody returned
FingerprintKeyFollowsOption ==
    /\ (~fpOn /\ ebPc \in {"loop", "done", "added"}) => fingerprint = ""
    /\ ebPc = "added" =>
         /\ data.body.trace_chain = traceChain
         /\ IF fpOn
            THEN "fingerprint" \in DOMAIN data /\ data.fingerprint = fingerprint
            ELSE "fingerprint" \notin DOMAIN data

\* a chain of two entries, the first with frames, has been added to a body
\* with the option off
NoFingerprintForStackedChain ==
    /\ ebPc = "added"
    /\ ~fpOn
    /\ Len(traceChain) = 2
    /\ traceChain[1].frames # <<>>
    /\ DOMAIN data = {"body"}

\* the payload the worker has received and not yet marked processed
InHand == IF wpc \in {"process", "requeue"} THEN 1 ELSE 0

\* the Send calls that have done waitGroup.Add(1) and not yet left the select
BetweenAddAndEnqueue == Cardinality({c \in Calls : pc[c] \in {"select", "panic"}})

\* C32: the WaitGroup counter of an AsyncTransport is the number of payloads
\* in the channel, plus the one the worker holds, plus the Sends between
\* their Add and their enqueue; it is never negative and no payload is
\* marked processed twice
PendingCountAccounting ==
    transport = "async" =>
      /\ waitGroup = Len(bodyChannel) + InHand + BetweenAddAndEnqueue
      /\ waitGroup >= 0
      /\ \A c \in Calls : dones[c] <= 1

\* no Send call is between its entry and its return
NoSendRunning == \A c \in Calls : pc[c] \in {"idle", "done"}

\* C33: on a transport that is neither closed nor cancelled, with a fair
\* worker, the WaitGroup counter reaches zero after the Send calls have
\* returned and every Wait that was called returns
WaitEventuallyReturns ==
    /\ NoSendRunning ~> waitGroup = 0
    /\ waitPc = "waiting" ~> waitPc = "returned"

\* C34: on a SyncTransport with ItemsPerMinute = N > 0, whatever the
\* number of goroutines inside Send, the posts that succeeded since the
\* window began and the counter are both at most N
SyncRateLimitHolds ==
    (transport = "sync" /\ ItemsPerMinute > 0)
    => /\ win.ok <= ItemsPerMinute
       /\ perMinCounter <= ItemsPerMinute

\* the payloads that wait in the channel or are in the worker's hand
Pending ==
    {bodyChannel[i] : i \in 1..Len(bodyChannel)}
      \cup (IF wpc \in {"process", "requeue"} THEN {cur} ELSE {})

\* C35: Send gives a payload the RetryAttempts of the moment as its budget;
\* a change of RetryAttempts leaves the channel, the worker's payload and
\* every budget as they are, and every pending payload has what its own
\* budget leaves after the posts made for it
BudgetFixedAtSend ==
    /\ [][\A c \in Calls :
            /\ (pc[c] = "add" /\ pc'[c] # "add") => budget'[c] = RetryAttempts
            /\ pc[c] \notin {"idle", "add"} => budget'[c] = budget[c]]_vars
    /\ [][RetryAttempts' # RetryAttempts
            => bodyChannel' = bodyChannel /\ cur' = cur /\ budget' = budget]_vars
    /\ [](\A p \in Pending :
            /\ p.retriesLeft = budget[p.id] - posts[p.id]
            /\ p.retriesLeft >= 0)

\* with RetryAttempts set to 0 after payload 1 was accepted and before
\* payload 2 was, the worker has dealt with payload 2 and holds payload 1
\* again for another post
RetriedUnderOldBudget ==
    /\ RetryAttempts = 0
    /\ budget[1] = MaxRetry
    /\ pc[2] = "done" /\ budget[2] = 0
    /\ outcome[2] # "none"
    /\ wpc = "process"
    /\ cur.id = 1
    /\ posts[1] >= 1

\* no goroutine is inside SetToken or SetEndpoint
SettersIdle == \A g \in Setters : setPc[g] = "idle"

\* C36: when the SetToken and SetEndpoint calls made so far came one after
\* the other and all have returned, the configuration's token and endpoint
\* are those of the transport, and the token that goes into a payload is
\* empty exactly when the token that post tests is
ConfigurationMatchesTransport ==
    (SettersIdle /\ ~overlapped)
    => /\ configurationToken = transportToken
       /\ configurationEndpoint = transportEndpoint
       /\ (configurationToken = "") <=> (transportToken = "")

\* both have been set to something else than the client was made with
TokenAndEndpointReplaced ==
    /\ SettersIdle
    /\ ~overlapped
    /\ configurationToken = "tok2" /\ transportToken = "tok2"
    /\ configurationEndpoint # DefaultEndpoint
    /\ transportEndpoint = configurationEndpoint

\* C37: on a Queue made with any size, count is within the slots of nodes,
\* head and tail are indices of nodes, tail is head + count modulo the number
\* of slots while a slot is free, count is the number of elements pushed and
\* not yet popped, and no Push panics.
QueueStructure ==
    /\ 0 <= count /\ count <= Len(nodes)
    /\ 0 <= head /\ head < Len(nodes)
    /\ 0 <= tail /\ tail < Len(nodes)
    /\ count < Len(nodes) => tail = (head + count) % Len(nodes)
    /\ count = Len(pushed)
    /\ qop # "panic"

====
